---------------------------- MODULE Spec2Model ----------------------------
(***************************************************************************)
(* Model of inhouse-mcp-server/bitbucket_server.py: the Bitbucket tools    *)
(* (authenticate_user, get_workspaces, get_repositories,                   *)
(* get_repository_codebase, get_specific_file_content,                     *)
(* get_repository_files_list, save_codebase_to_file) over the global       *)
(* auth_headers, with the remote REST API as the environment.              *)
(*                                                                         *)
(* Strings the code inspects (paths) are sequences of one-character        *)
(* strings, so that endswith() and lower() are computed, not assumed.      *)
(* A value that a Python expression may raise instead of returning is      *)
(* [raised |-> TRUE, exc |-> e] or [raised |-> FALSE, value |-> v].        *)
(***************************************************************************)
EXTENDS Integers, Sequences, FiniteSets, TLC

VARIABLES
    auth_headers,      \* global auth_headers (line 50)
    BITBUCKET_EMAIL,   \* process configuration (line 21), fixed after start
    pc,                \* "idle": waiting for a tool call; "done": a call returned
    call,              \* the tool call that returned last, with what the remote answered
    result,            \* what that call returned (or raised) to the protocol layer
    requests,          \* the network requests that call issued, in order
    writes             \* the local files that call opened for writing, with what they hold

vars == <<auth_headers, BITBUCKET_EMAIL, pc, call, result, requests, writes>>

-----------------------------------------------------------------------------
(* Bounds of the model *)

\* longest directory listing the remote returns
MaxEntries == 2
\* most requests of one call the remote answers with a failure
MaxFailures == 2
\* longest chain of repository pages
MaxPages == 3
\* most repositories on one page
MaxPageLen == 2

-----------------------------------------------------------------------------
(* Python values *)

None == [none |-> TRUE]

Ok(v) == [raised |-> FALSE, value |-> v]
Raise(e) == [raised |-> TRUE, exc |-> e]

\* a Python str the code does not look into
Str(s) == [str |-> s]

\* bool(x) for the values the code tests: None and "" are falsy
Truthy(x) == x # None /\ x # Str("")

\* str.endswith(suffix)
EndsWith(s, suffix) ==
    /\ Len(s) >= Len(suffix)
    /\ SubSeq(s, Len(s) - Len(suffix) + 1, Len(s)) = suffix

\* str.endswith(tuple of suffixes)
EndsWithAny(s, suffixes) == \E x \in suffixes : EndsWith(s, x)

UpperToLower ==
    [A |-> "a", B |-> "b", C |-> "c", D |-> "d", E |-> "e", F |-> "f", G |-> "g",
     H |-> "h", I |-> "i", J |-> "j", K |-> "k", L |-> "l", M |-> "m", N |-> "n",
     O |-> "o", P |-> "p", Q |-> "q", R |-> "r", S |-> "s", T |-> "t", U |-> "u",
     V |-> "v", W |-> "w", X |-> "x", Y |-> "y", Z |-> "z"]

\* str.lower()
Lower(s) == [i \in 1..Len(s) |-> IF s[i] \in DOMAIN UpperToLower THEN UpperToLower[s[i]] ELSE s[i]]

\* the extensions of line 290
CodebaseExtensions ==
    { <<".", "p", "y">>, <<".", "j", "s">>, <<".", "t", "s">>, <<".", "j", "a", "v", "a">>,
      <<".", "c", "p", "p">>, <<".", "c">>, <<".", "h">>, <<".", "h", "t", "m", "l">>,
      <<".", "c", "s", "s">>, <<".", "j", "s", "o", "n">>, <<".", "x", "m", "l">>,
      <<".", "m", "d">>, <<".", "t", "x", "t">>, <<".", "y", "m", "l">>,
      <<".", "y", "a", "m", "l">>, <<".", "s", "h">>, <<".", "b", "a", "t">>,
      <<".", "p", "s", "1">> }

\* code_extensions of line 451
code_extensions ==
    CodebaseExtensions \cup
    { <<".", "d", "a", "r", "t">>, <<".", "k", "t">>, <<".", "s", "w", "i", "f", "t">>,
      <<".", "r", "b">>, <<".", "p", "h", "p">>, <<".", "g", "o">>, <<".", "r", "s">>,
      <<".", "c", "s">>, <<".", "v", "b">>, <<".", "s", "q", "l">> }

-----------------------------------------------------------------------------
(* The remote repository: the source tree the src endpoint serves *)

RootPath == <<>>
PathAPy == <<"a", ".", "p", "y">>
PathRMD == <<"R", ".", "M", "D">>
PathD == <<"d">>
PathDCPng == <<"d", "/", "c", ".", "p", "n", "g">>
PathDE == <<"d", "/", "e">>
PathDEGH == <<"d", "/", "e", "/", "g", ".", "h">>

FileEntry(p, n) == [type |-> "commit_file", path |-> p, size |-> n]
DirEntry(p) == [type |-> "commit_directory", path |-> p]

\* what each directory of the remote may hold
Candidates(dir) ==
    IF dir = RootPath THEN {FileEntry(PathAPy, 10), FileEntry(PathRMD, 20), DirEntry(PathD)}
    ELSE IF dir = PathD THEN {FileEntry(PathDCPng, 30), DirEntry(PathDE)}
    ELSE IF dir = PathDE THEN {FileEntry(PathDEGH, 40)}
    ELSE {}

DirPaths == {RootPath, PathD, PathDE}

Injective(s) == \A i, j \in 1..Len(s) : s[i] = s[j] => i = j

\* the listings of a directory: its candidates in any order, none twice
Listings(dir) ==
    {s \in UNION {[1..n -> Candidates(dir)] : n \in 0..MaxEntries} : Injective(s)}

Lists(s, p) == \E i \in 1..Len(s) : s[i].path = p

\* the layouts of the remote tree; a directory no listing names is empty
Layouts ==
    UNION { UNION { { [dir \in DirPaths |->
                         IF dir = RootPath THEN lr ELSE IF dir = PathD THEN ld ELSE le]
                      : le \in IF Lists(ld, PathDE) THEN Listings(PathDE) ELSE {<<>>} }
                    : ld \in IF Lists(lr, PathD) THEN Listings(PathD) ELSE {<<>>} }
            : lr \in Listings(RootPath) }

\* the paths a layout holds
LayoutPaths(layout) ==
    {RootPath} \cup UNION {{layout[d][i].path : i \in 1..Len(layout[d])} : d \in DirPaths}

\* how a failing request fails: a non-success status, a network exception,
\* or a 200 whose body is not what the endpoint documents
Modes == {"status", "exception", "malformed"}

\* a remote: the tree it holds, the paths whose requests fail, and how
Remotes ==
    UNION { { [layout |-> l, bad |-> b, mode |-> m]
              : b \in {x \in SUBSET LayoutPaths(l) : Cardinality(x) \in 1..MaxFailures},
                m \in Modes } \cup
            { [layout |-> l, bad |-> {}, mode |-> "status"] }
            : l \in Layouts }

IsDir(remote, p) ==
    p = RootPath \/ \E d \in DirPaths : \E i \in 1..Len(remote.layout[d]) :
        remote.layout[d][i] = DirEntry(p)

Text(kind, p) == [kind |-> kind, path |-> p]

\* requests.get(f"{base_url}/src/{branch}/{path}", headers=auth_headers)
SrcGet(remote, p) ==
    IF p \in remote.bad /\ remote.mode = "exception" THEN Raise("ConnectionError")
    ELSE IF p \notin LayoutPaths(remote.layout) \/ (p \in remote.bad /\ remote.mode = "status")
    THEN Ok([status_code |-> 404, text |-> Text("not found", p),
             json |-> Raise("JSONDecodeError")])
    ELSE IF p \in remote.bad
    THEN Ok([status_code |-> 200, text |-> Text("garbage", p),
             json |-> Raise("JSONDecodeError")])
    ELSE IF IsDir(remote, p)
    THEN Ok([status_code |-> 200, text |-> Text("listing", p),
             json |-> Ok([values |-> remote.layout[p]])])
    ELSE Ok([status_code |-> 200, text |-> Text("file body", p),
             json |-> Raise("JSONDecodeError")])

SrcRequest(workspace, repo_slug, branch, p, headers) ==
    [endpoint |-> "src", workspace |-> workspace, repo_slug |-> repo_slug,
     branch |-> branch, path |-> p, headers |-> headers]

-----------------------------------------------------------------------------
(* get_repository_codebase *)

\* the context the nested functions close over
Ctx(headers, remote, workspace, repo_slug, branch) ==
    [headers |-> headers, remote |-> remote, workspace |-> workspace,
     repo_slug |-> repo_slug, branch |-> branch]

\* get_file_contents giving up on a failed request instead of describing it
get_file_contents_NoneOnFailure(ctx, file_path) ==
    LET response == SrcGet(ctx.remote, file_path)
        reqs == <<SrcRequest(ctx.workspace, ctx.repo_slug, ctx.branch, file_path, ctx.headers)>>
    IN  IF ~response.raised /\ response.value.status_code = 200
        THEN [ret |-> response.value.text, reqs |-> reqs]
        ELSE [ret |-> None, reqs |-> reqs]

\* get_file_contents (lines 250-262): [ret |-> the string returned, reqs |-> requests issued]
get_file_contents(ctx, file_path) ==
    LET response == SrcGet(ctx.remote, file_path)
        reqs == <<SrcRequest(ctx.workspace, ctx.repo_slug, ctx.branch, file_path, ctx.headers)>>
    IN  IF response.raised
        THEN [ret |-> [kind |-> "Error: Exception while fetching", path |-> file_path,
                       exc |-> response.exc],
              reqs |-> reqs]
        ELSE IF response.value.status_code = 200
        THEN [ret |-> response.value.text, reqs |-> reqs]
        ELSE [ret |-> [kind |-> "Error: Could not fetch file", path |-> file_path,
                       status |-> response.value.status_code],
              reqs |-> reqs]

\* the test of line 290 letting every path through
HasCodebaseExtension_Any(item_path) == TRUE

\* the test of line 290 on item_path
HasCodebaseExtension(item_path) == EndsWithAny(item_path, CodebaseExtensions)

\* the file_info of lines 286-291
FileInfo(ctx, item) ==
    LET fetched == get_file_contents(ctx, item.path)
    IN  IF HasCodebaseExtension(item.path)
        THEN [node |-> [type |-> "file", path |-> item.path, size |-> item.size,
                        content |-> fetched.ret],
              reqs |-> fetched.reqs]
        ELSE [node |-> [type |-> "file", path |-> item.path, size |-> item.size,
                        content |-> None],
              reqs |-> <<>>]

\* whether a sub_structure is attached (line 296)
AttachSubStructure(sub_structure) == Truthy(sub_structure)

RECURSIVE get_directory_structure(_, _)
RECURSIVE WalkValues(_, _, _)

\* the loop of lines 280-297 putting each child before the ones appended so far
WalkValues_Reversed(ctx, values, i) ==
    IF i > Len(values) THEN [children |-> <<>>, reqs |-> <<>>]
    ELSE LET item == values[i]
             here ==
                 IF item.type = "commit_file"
                 THEN LET f == FileInfo(ctx, item)
                      IN  [children |-> <<f.node>>, reqs |-> f.reqs]
                 ELSE IF item.type = "commit_directory"
                 THEN LET sub == get_directory_structure(ctx, item.path)
                      IN  [children |-> IF AttachSubStructure(sub.ret)
                                        THEN <<sub.ret>> ELSE <<>>,
                           reqs |-> sub.reqs]
                 ELSE [children |-> <<>>, reqs |-> <<>>]
             rest == WalkValues(ctx, values, i + 1)
         IN  [children |-> rest.children \o here.children, reqs |-> here.reqs \o rest.reqs]

\* the loop of lines 280-297 from the i-th item on:
\* [children |-> nodes appended, reqs |-> requests issued]
WalkValues(ctx, values, i) ==
    IF i > Len(values) THEN [children |-> <<>>, reqs |-> <<>>]
    ELSE LET item == values[i]
             here ==
                 IF item.type = "commit_file"
                 THEN LET f == FileInfo(ctx, item)
                      IN  [children |-> <<f.node>>, reqs |-> f.reqs]
                 ELSE IF item.type = "commit_directory"
                 THEN LET sub == get_directory_structure(ctx, item.path)
                      IN  [children |-> IF AttachSubStructure(sub.ret)
                                        THEN <<sub.ret>> ELSE <<>>,
                           reqs |-> sub.reqs]
                 ELSE [children |-> <<>>, reqs |-> <<>>]
             rest == WalkValues(ctx, values, i + 1)
         IN  [children |-> here.children \o rest.children, reqs |-> here.reqs \o rest.reqs]

\* get_directory_structure returning an empty directory for a listing that failed
get_directory_structure_EmptyOnFailure(ctx, dir_path) ==
    LET response == SrcGet(ctx.remote, dir_path)
        reqs == <<SrcRequest(ctx.workspace, ctx.repo_slug, ctx.branch, dir_path, ctx.headers)>>
        empty == [type |-> "directory", path |-> dir_path, children |-> <<>>]
    IN  IF response.raised THEN [ret |-> empty, reqs |-> reqs]
        ELSE IF response.value.status_code = 200
        THEN IF response.value.json.raised THEN [ret |-> empty, reqs |-> reqs]
             ELSE LET walked == WalkValues(ctx, response.value.json.value.values, 1)
                  IN  [ret |-> [type |-> "directory", path |-> dir_path,
                                children |-> walked.children],
                       reqs |-> reqs \o walked.reqs]
        ELSE [ret |-> empty, reqs |-> reqs]

\* get_directory_structure asking once more after a non-success status
get_directory_structure_Retry(ctx, dir_path) ==
    LET response == SrcGet(ctx.remote, dir_path)
        reqs == <<SrcRequest(ctx.workspace, ctx.repo_slug, ctx.branch, dir_path, ctx.headers)>>
    IN  IF response.raised THEN [ret |-> None, reqs |-> reqs]
        ELSE IF response.value.status_code = 200
        THEN IF response.value.json.raised THEN [ret |-> None, reqs |-> reqs]
             ELSE LET walked == WalkValues(ctx, response.value.json.value.values, 1)
                  IN  [ret |-> [type |-> "directory", path |-> dir_path,
                                children |-> walked.children],
                       reqs |-> reqs \o walked.reqs]
        ELSE [ret |-> None, reqs |-> reqs \o reqs]

\* get_directory_structure (lines 264-304): [ret |-> the structure or None, reqs |-> ...]
get_directory_structure(ctx, dir_path) ==
    LET response == SrcGet(ctx.remote, dir_path)
        reqs == <<SrcRequest(ctx.workspace, ctx.repo_slug, ctx.branch, dir_path, ctx.headers)>>
    IN  IF response.raised THEN [ret |-> None, reqs |-> reqs]
        ELSE IF response.value.status_code = 200
        THEN IF response.value.json.raised THEN [ret |-> None, reqs |-> reqs]
             ELSE LET walked == WalkValues(ctx, response.value.json.value.values, 1)
                  IN  [ret |-> [type |-> "directory", path |-> dir_path,
                                children |-> walked.children],
                       reqs |-> reqs \o walked.reqs]
        ELSE [ret |-> None, reqs |-> reqs]

\* CodebaseEnvelope without the test of line 308
CodebaseEnvelope_Unchecked(walked, workspace, repo_slug, branch) ==
    [ret |-> [success |-> TRUE, workspace |-> workspace, repository |-> repo_slug,
              branch |-> branch, structure |-> walked.ret],
     reqs |-> walked.reqs]

\* lines 306-325 for what get_directory_structure(path) returned and requested
CodebaseEnvelope(walked, workspace, repo_slug, branch) ==
    IF Truthy(walked.ret)
    THEN [ret |-> [success |-> TRUE, workspace |-> workspace, repository |-> repo_slug,
                   branch |-> branch, structure |-> walked.ret],
          reqs |-> walked.reqs]
    ELSE [ret |-> [success |-> FALSE,
                   error |-> [msg |-> "Failed to get codebase structure"]],
          reqs |-> walked.reqs]

\* get_repository_codebase (lines 227-325): [ret |-> envelope, reqs |-> requests issued]
get_repository_codebase(headers, remote, workspace, repo_slug, branch, path) ==
    IF ~Truthy(headers)
    THEN [ret |-> [success |-> FALSE,
                   error |-> [msg |-> "Not authenticated. Please authenticate first."]],
          reqs |-> <<>>]
    ELSE CodebaseEnvelope(
             get_directory_structure(Ctx(headers, remote, workspace, repo_slug, branch),
                                     path),
             workspace, repo_slug, branch)

-----------------------------------------------------------------------------
(* authenticate_user *)

BITBUCKET_TOKEN == Str("app-password")

\* get_headers_with_email (lines 52-58)
get_headers_with_email(email) ==
    [Authorization |-> [scheme |-> "Basic",
                        b64 |-> [email |-> email, sep |-> ":", token |-> BITBUCKET_TOKEN]]]

\* what GET /2.0/user may answer
UserResponses ==
    { Raise("ConnectionError"),
      Ok([status_code |-> 200, text |-> Text("user json", <<>>),
          json |-> Ok([username |-> Str("dev"), display_name |-> Str("Dev")])]),
      Ok([status_code |-> 200, text |-> Text("user json", <<>>),
          json |-> Ok([display_name |-> Str("Dev")])]),
      Ok([status_code |-> 200, text |-> Text("garbage", <<>>),
          json |-> Raise("JSONDecodeError")]),
      Ok([status_code |-> 401, text |-> Text("unauthorized", <<>>),
          json |-> Raise("JSONDecodeError")]) }

\* the answer of a request that was never sent
NoResponse == [unsent |-> TRUE]

\* no except clause: the exception leaves the tool
Except_Reraise(out, msg) == IF out.raised THEN out ELSE out.value

\* except Exception as e: return {"success": False, "error": f"<msg>: {str(e)}"}
Except(out, msg) ==
    IF out.raised THEN [success |-> FALSE, error |-> [msg |-> msg, exc |-> out.exc]]
    ELSE out.value

\* the try block of authenticate_user (lines 84-103):
\* [out |-> the envelope returned or the exception raised, auth |-> auth_headers after]
AuthenticateTry(email, headers_before, response) ==
    LET headers == get_headers_with_email(email)
    IN  IF response.raised THEN [out |-> response, auth |-> headers_before]
        ELSE IF response.value.status_code = 200
        THEN IF response.value.json.raised
             THEN [out |-> response.value.json, auth |-> headers_before]
             ELSE LET user_data == response.value.json.value
                  IN  IF "username" \in DOMAIN user_data
                      THEN [out |-> Ok([success |-> TRUE, user |-> user_data,
                                        message |-> [msg |-> "Authenticated as",
                                                     username |-> user_data.username,
                                                     email |-> email]]),
                            auth |-> headers]
                      ELSE [out |-> Raise("KeyError"), auth |-> headers]
        ELSE [out |-> Ok([success |-> FALSE,
                          error |-> [msg |-> "Authentication failed",
                                     status |-> response.value.status_code],
                          details |-> response.value.text]),
              auth |-> headers_before]

\* authenticate_user (lines 61-108):
\* [ret |-> envelope, auth |-> auth_headers after, reqs |-> requests issued]
authenticate_user(email, configured, headers_before, response) ==
    IF email = None /\ ~Truthy(configured)
    THEN [ret |-> [success |-> FALSE,
                   error |-> [msg |-> "No email provided and BITBUCKET_EMAIL not configured."]],
          auth |-> headers_before, reqs |-> <<>>]
    ELSE LET used == IF email = None THEN configured ELSE email
             t == AuthenticateTry(used, headers_before, response)
         IN  [ret |-> Except(t.out, "Exception during authentication"),
              auth |-> t.auth,
              reqs |-> <<[endpoint |-> "user", headers |-> get_headers_with_email(used)]>>]

-----------------------------------------------------------------------------
(* The check every tool but get_repository_codebase starts with *)

NotAuthenticated ==
    [success |-> FALSE,
     error |-> [msg |-> "Not authenticated. Please authenticate first using authenticate_user() or configure BITBUCKET_EMAIL."]]

\* lines 120-130 (and 172-182, 343-353, 400-410):
\* [proceed |-> whether the tool goes on, ret |-> what it returns if not,
\*  auth |-> auth_headers after, reqs |-> requests issued]
AutoAuthenticate(headers_before, configured, response) ==
    IF Truthy(headers_before)
    THEN [proceed |-> TRUE, ret |-> None, auth |-> headers_before, reqs |-> <<>>]
    ELSE IF Truthy(configured)
    THEN LET a == authenticate_user(None, configured, headers_before, response)
         IN  [proceed |-> a.ret.success, ret |-> a.ret, auth |-> a.auth, reqs |-> a.reqs]
    ELSE [proceed |-> FALSE, ret |-> NotAuthenticated, auth |-> headers_before,
          reqs |-> <<>>]

\* a JSON body that is a list, where the code expects an object
JsonList == [json_list |-> <<>>]

\* dict.get(key, default); a list has no get
DictGet(data, key, default) ==
    IF "json_list" \in DOMAIN data THEN Raise("AttributeError")
    ELSE IF key \in DOMAIN data THEN Ok(data[key])
    ELSE Ok(default)

-----------------------------------------------------------------------------
(* get_workspaces *)

WorkspacesResponses ==
    { Raise("ConnectionError"),
      Ok([status_code |-> 200, text |-> Text("workspaces json", <<>>),
          json |-> Ok([values |-> <<Str("acme"), Str("labs")>>])]),
      Ok([status_code |-> 200, text |-> Text("workspaces json", <<>>),
          json |-> Ok([pagelen |-> 10])]),
      Ok([status_code |-> 200, text |-> Text("workspaces json", <<>>),
          json |-> Ok(JsonList)]),
      Ok([status_code |-> 200, text |-> Text("garbage", <<>>),
          json |-> Raise("JSONDecodeError")]),
      Ok([status_code |-> 500, text |-> Text("server error", <<>>),
          json |-> Raise("JSONDecodeError")]) }

\* the try block of get_workspaces (lines 133-151)
WorkspacesTry(response) ==
    IF response.raised THEN response
    ELSE IF response.value.status_code = 200
    THEN IF response.value.json.raised THEN response.value.json
         ELSE LET workspaces == DictGet(response.value.json.value, "values", <<>>)
              IN  IF workspaces.raised THEN workspaces
                  ELSE Ok([success |-> TRUE, workspaces |-> workspaces.value,
                           count |-> Len(workspaces.value)])
    ELSE Ok([success |-> FALSE,
             error |-> [msg |-> "Failed to get workspaces",
                        status |-> response.value.status_code],
             details |-> response.value.text])

\* get_workspaces (lines 111-156)
get_workspaces(headers_before, configured, user_response, response) ==
    LET a == AutoAuthenticate(headers_before, configured, user_response)
    IN  IF ~a.proceed THEN [ret |-> a.ret, auth |-> a.auth, reqs |-> a.reqs]
        ELSE [ret |-> Except(WorkspacesTry(response), "Exception while getting workspaces"),
              auth |-> a.auth,
              reqs |-> a.reqs \o <<[endpoint |-> "workspaces", headers |-> a.auth]>>]

-----------------------------------------------------------------------------
(* get_repositories *)

\* the URL the remote names as the i-th page
PageUrl(i) == [endpoint |-> "repositories", page |-> i]

\* the URL of lines 185-188
RepositoriesUrl(workspace) ==
    IF Truthy(workspace) THEN [endpoint |-> "repositories", workspace |-> workspace]
    ELSE [endpoint |-> "repositories"]

\* the k repositories of the i-th page
PageValues(i, k) == [j \in 1..k |-> [page |-> i, slug |-> j]]

\* a successful page: k repositories and, unless it is the last, the next URL
OkPage(i, k, last) ==
    Ok([status_code |-> 200, text |-> Text("repositories json", <<>>),
        json |-> Ok(IF last THEN [values |-> PageValues(i, k)]
                    ELSE [values |-> PageValues(i, k), next |-> PageUrl(i + 1)])])

\* how the last response of a chain may be, when it is not a last page
FailedPages ==
    { Raise("ConnectionError"),
      Ok([status_code |-> 200, text |-> Text("repositories json", <<>>),
          json |-> Ok(JsonList)]),
      Ok([status_code |-> 200, text |-> Text("garbage", <<>>),
          json |-> Raise("JSONDecodeError")]),
      Ok([status_code |-> 500, text |-> Text("server error", <<>>),
          json |-> Raise("JSONDecodeError")]) }

\* the chains of pages the remote may serve: pages linked by next, the last one
\* without next or failed
PageChains ==
    UNION { UNION { { [i \in 1..n |-> IF i < n THEN OkPage(i, sizes[i], FALSE) ELSE last]
                      : last \in {OkPage(n, sizes[n], TRUE)} \cup FailedPages }
                    : sizes \in [1..n -> 0..MaxPageLen] }
            : n \in 1..MaxPages }

\* requests.get(next_url, headers=auth_headers, params=params)
RepositoriesGet(chain, url) ==
    IF "page" \in DOMAIN url THEN chain[url.page] ELSE chain[1]

\* next_url = data.get('next')
NextUrl(data) == DictGet(data, "next", None)

\* all_repos = repos
Extend_Replace(all_repos, repos) == repos

\* all_repos.extend(repos)
Extend(all_repos, repos) == all_repos \o repos

RECURSIVE RepositoriesLoop(_, _, _, _, _)

\* the loop of lines 198-213 from next_url on, then lines 215-219:
\* [out |-> the envelope returned or the exception raised, reqs |-> requests issued]
RepositoriesLoop(chain, headers, next_url, params, all_repos) ==
    IF ~Truthy(next_url)
    THEN [out |-> Ok([success |-> TRUE, repositories |-> all_repos,
                      count |-> Len(all_repos)]),
          reqs |-> <<>>]
    ELSE LET response == RepositoriesGet(chain, next_url)
             reqs == <<[url |-> next_url, headers |-> headers, params |-> params]>>
         IN  IF response.raised THEN [out |-> response, reqs |-> reqs]
             ELSE IF response.value.status_code = 200
             THEN IF response.value.json.raised
                  THEN [out |-> response.value.json, reqs |-> reqs]
                  ELSE LET data == response.value.json.value
                           repos == DictGet(data, "values", <<>>)
                       IN  IF repos.raised THEN [out |-> repos, reqs |-> reqs]
                           ELSE LET rest == RepositoriesLoop(chain, headers,
                                                NextUrl(data).value, [cleared |-> TRUE],
                                                Extend(all_repos, repos.value))
                                IN  [out |-> rest.out, reqs |-> reqs \o rest.reqs]
             ELSE [out |-> Ok([success |-> FALSE,
                               error |-> [msg |-> "Failed to get repositories",
                                          status |-> response.value.status_code],
                               details |-> response.value.text]),
                   reqs |-> reqs]

\* get_repositories (lines 159-224)
get_repositories(headers_before, configured, user_response, chain, workspace, page_size) ==
    LET a == AutoAuthenticate(headers_before, configured, user_response)
    IN  IF ~a.proceed THEN [ret |-> a.ret, auth |-> a.auth, reqs |-> a.reqs]
        ELSE LET loop == RepositoriesLoop(chain, a.auth, RepositoriesUrl(workspace),
                             [pagelen |-> page_size, sort |-> "-updated_on"], <<>>)
             IN  [ret |-> Except(loop.out, "Exception while getting repositories"),
                  auth |-> a.auth,
                  reqs |-> a.reqs \o loop.reqs]

-----------------------------------------------------------------------------
(* get_specific_file_content *)

FileResponses ==
    { Raise("ConnectionError"),
      Ok([status_code |-> 200, text |-> <<"h", "i">>, json |-> Raise("JSONDecodeError")]),
      Ok([status_code |-> 200, text |-> <<>>, json |-> Raise("JSONDecodeError")]),
      Ok([status_code |-> 404, text |-> <<"n", "o">>, json |-> Raise("JSONDecodeError")]) }

\* the try block of get_specific_file_content (lines 358-377)
FileContentTry(response, workspace, repo_slug, file_path, branch) ==
    IF response.raised THEN response
    ELSE IF response.value.status_code = 200
    THEN Ok([success |-> TRUE, workspace |-> workspace, repository |-> repo_slug,
             file_path |-> file_path, branch |-> branch,
             content |-> response.value.text, size |-> Len(response.value.text)])
    ELSE Ok([success |-> FALSE,
             error |-> [msg |-> "Could not fetch file", path |-> file_path,
                        status |-> response.value.status_code]])

\* get_specific_file_content (lines 328-382)
get_specific_file_content(headers_before, configured, user_response, response, workspace, repo_slug, file_path, branch) ==
    LET a == AutoAuthenticate(headers_before, configured, user_response)
    IN  IF ~a.proceed THEN [ret |-> a.ret, auth |-> a.auth, reqs |-> a.reqs]
        ELSE [ret |-> Except(FileContentTry(response, workspace, repo_slug, file_path,
                                            branch),
                             "Exception while fetching"),
              auth |-> a.auth,
              reqs |-> a.reqs \o
                       <<SrcRequest(workspace, repo_slug, branch, file_path, a.auth)>>]

-----------------------------------------------------------------------------
(* get_repository_files_list *)

PyFalse == [bool |-> FALSE]

RECURSIVE get_files_recursive(_, _)
RECURSIVE FilesLoop(_, _, _)

\* the loop of lines 426-435 from the i-th item on:
\* [files |-> paths appended to all_files, reqs |-> requests issued]
FilesLoop(ctx, values, i) ==
    IF i > Len(values) THEN [files |-> <<>>, reqs |-> <<>>]
    ELSE LET item == values[i]
             here ==
                 IF item.type = "commit_file"
                 THEN [files |-> <<item.path>>, reqs |-> <<>>]
                 ELSE IF item.type = "commit_directory"
                 THEN LET sub == get_files_recursive(ctx, item.path)
                      IN  [files |-> sub.files, reqs |-> sub.reqs]
                 ELSE [files |-> <<>>, reqs |-> <<>>]
             rest == FilesLoop(ctx, values, i + 1)
         IN  [files |-> here.files \o rest.files, reqs |-> here.reqs \o rest.reqs]

\* get_files_recursive (lines 415-440):
\* [ret |-> False or None, files |-> paths appended to all_files, reqs |-> ...]
get_files_recursive(ctx, dir_path) ==
    LET response == SrcGet(ctx.remote, dir_path)
        reqs == <<SrcRequest(ctx.workspace, ctx.repo_slug, ctx.branch, dir_path, ctx.headers)>>
    IN  IF response.raised THEN [ret |-> PyFalse, files |-> <<>>, reqs |-> reqs]
        ELSE IF response.value.status_code = 200
        THEN IF response.value.json.raised
             THEN [ret |-> PyFalse, files |-> <<>>, reqs |-> reqs]
             ELSE LET walked == FilesLoop(ctx, response.value.json.value.values, 1)
                  IN  [ret |-> None, files |-> walked.files, reqs |-> reqs \o walked.reqs]
        ELSE [ret |-> PyFalse, files |-> <<>>, reqs |-> reqs]

\* the test of line 452 on a path
IsCodeFile(f) == EndsWithAny(Lower(f), code_extensions)

\* lines 442-463 for what the walk returned and collected
FilesListEnvelope(success, all_files, workspace, repo_slug, branch) ==
    IF success = PyFalse
    THEN [success |-> FALSE, error |-> [msg |-> "Failed to get files list"]]
    ELSE LET code_files == SelectSeq(all_files, IsCodeFile)
         IN  [success |-> TRUE, workspace |-> workspace, repository |-> repo_slug,
              branch |-> branch, all_files |-> all_files, code_files |-> code_files,
              total_files |-> Len(all_files), code_files_count |-> Len(code_files)]

\* lines 442-468 after authentication a, for what get_files_recursive(path) did
FilesListResult(a, walked, workspace, repo_slug, branch) ==
    [ret |-> Except(Ok(FilesListEnvelope(walked.ret, walked.files, workspace, repo_slug,
                                         branch)),
                    "Exception while getting files list"),
     auth |-> a.auth,
     reqs |-> a.reqs \o walked.reqs]

\* get_repository_files_list (lines 385-468)
get_repository_files_list(headers_before, configured, user_response, remote, workspace, repo_slug, branch, path) ==
    LET a == AutoAuthenticate(headers_before, configured, user_response)
    IN  IF ~a.proceed THEN [ret |-> a.ret, auth |-> a.auth, reqs |-> a.reqs]
        ELSE FilesListResult(
                 a, get_files_recursive(Ctx(a.auth, remote, workspace, repo_slug, branch),
                                        path),
                 workspace, repo_slug, branch)

-----------------------------------------------------------------------------
(* save_codebase_to_file *)

\* what open(filename, 'w') (line 504) and json.dump with the close of the file
\* (line 505) may do: fails |-> the call that raises OSError, written |-> how much
\* of the serialised output_data reached the file before that
WriteOutcomes ==
    {[fails |-> "never", written |-> "all"], [fails |-> "open", written |-> "nothing"]}
        \cup {[fails |-> "dump", written |-> w] : w \in {"nothing", "prefix", "all"}}

\* datetime.now().isoformat()
Timestamps == {Str("2024-05-01T10:00:00")}

\* the file as open(filename, 'w') and json.dump leave it: opening truncates it,
\* then all, a prefix or nothing of the serialisation of data is in it
FileWritten(filename, data, write) ==
    [filename |-> filename, written |-> write.written,
     data |-> IF write.written = "nothing" THEN None ELSE data]

\* lines 489-513 for what get_repository_codebase returned:
\* [out |-> the envelope returned or the exception raised, reqs |-> requests issued,
\*  writes |-> files opened for writing, with what they hold,
\*  opened |-> whether line 504 was reached]
SaveResult(codebase, workspace, repo_slug, filename, timestamp, write) ==
    IF ~codebase.ret.success
    THEN [out |-> Ok(codebase.ret), reqs |-> codebase.reqs, writes |-> <<>>,
          opened |-> FALSE]
    ELSE IF write.fails = "open"
    THEN [out |-> Raise("OSError"), reqs |-> codebase.reqs, writes |-> <<>>,
          opened |-> TRUE]
    ELSE IF write.fails = "dump"
    THEN [out |-> Raise("OSError"), reqs |-> codebase.reqs,
          writes |-> <<FileWritten(filename,
                                   [workspace |-> workspace, repository |-> repo_slug,
                                    timestamp |-> timestamp,
                                    structure |-> codebase.ret.structure], write)>>,
          opened |-> TRUE]
    ELSE [out |-> Ok([success |-> TRUE, filename |-> filename,
                      workspace |-> workspace, repository |-> repo_slug,
                      message |-> [msg |-> "Codebase structure saved to",
                                   filename |-> filename]]),
          reqs |-> codebase.reqs,
          writes |-> <<FileWritten(filename,
                                   [workspace |-> workspace, repository |-> repo_slug,
                                    timestamp |-> timestamp,
                                    structure |-> codebase.ret.structure], write)>>,
          opened |-> TRUE]

\* the try block of save_codebase_to_file (lines 486-513)
SaveTry(headers, remote, workspace, repo_slug, filename, branch, path, timestamp, write) ==
    SaveResult(get_repository_codebase(headers, remote, workspace, repo_slug, branch, path),
               workspace, repo_slug, filename, timestamp, write)

\* lines 514-518 around the try block
SaveExcept(t) ==
    [ret |-> Except(t.out, "Error saving to file"), reqs |-> t.reqs,
     writes |-> t.writes, opened |-> t.opened]

\* save_codebase_to_file (lines 471-518)
save_codebase_to_file(headers, remote, workspace, repo_slug, filename, branch, path, timestamp, write) ==
    SaveExcept(SaveTry(headers, remote, workspace, repo_slug, filename, branch, path,
                       timestamp, write))

-----------------------------------------------------------------------------
(* The tool calls *)

Workspace == Str("acme")
RepoSlug == Str("widgets")
Branch == Str("main")

Emails == {None, Str("dev@example.com")}
ConfiguredEmails == {Str(""), Str("ci@example.com")}
StartPaths == {RootPath, PathD}

NoCall == [tool |-> "none"]

Init ==
    /\ auth_headers = None
    /\ BITBUCKET_EMAIL \in ConfiguredEmails
    /\ writes = <<>>
    /\ pc = "idle"
    /\ call = NoCall
    /\ result = None
    /\ requests = <<>>

\* whether authenticate_user sends its request
AuthSends(email, configured) == email # None \/ Truthy(configured)

\* a call returns r to the protocol layer; c records the call
Returns(c, r) ==
    /\ call' = c
    /\ result' = r.ret
    /\ requests' = r.reqs
    /\ pc' = "done"

CallAuthenticateUser ==
    /\ pc = "idle"
    /\ \E email \in Emails :
         \E response \in IF AuthSends(email, BITBUCKET_EMAIL) THEN UserResponses
                         ELSE {NoResponse} :
           /\ Returns([tool |-> "authenticate_user", email |-> email,
                       user_response |-> response],
                      authenticate_user(email, BITBUCKET_EMAIL, auth_headers, response))
           /\ auth_headers' =
                  authenticate_user(email, BITBUCKET_EMAIL, auth_headers, response).auth
    /\ UNCHANGED <<BITBUCKET_EMAIL, writes>>

CallGetRepositoryCodebase ==
    /\ pc = "idle"
    /\ \E remote \in Remotes, path \in StartPaths :
           Returns([tool |-> "get_repository_codebase", remote |-> remote,
                    path |-> path, user_response |-> NoResponse],
                   get_repository_codebase(auth_headers, remote, Workspace, RepoSlug,
                                           Branch, path))
    /\ UNCHANGED <<auth_headers, BITBUCKET_EMAIL, writes>>

\* the answer of GET /2.0/user to a tool that authenticates by itself
AutoUserResponses ==
    IF ~Truthy(auth_headers) /\ Truthy(BITBUCKET_EMAIL) THEN UserResponses ELSE {NoResponse}

\* whether a tool that authenticates by itself goes on to its own request
Proceeds(user_response) ==
    AutoAuthenticate(auth_headers, BITBUCKET_EMAIL, user_response).proceed

\* a call that may have authenticated by itself returns r
ReturnsAuth(c, r) ==
    /\ Returns(c, r)
    /\ auth_headers' = r.auth

CallGetWorkspaces ==
    /\ pc = "idle"
    /\ \E user_response \in AutoUserResponses :
         \E response \in IF Proceeds(user_response) THEN WorkspacesResponses
                         ELSE {NoResponse} :
           ReturnsAuth([tool |-> "get_workspaces", user_response |-> user_response,
                        response |-> response],
                       get_workspaces(auth_headers, BITBUCKET_EMAIL, user_response,
                                      response))
    /\ UNCHANGED <<BITBUCKET_EMAIL, writes>>

WorkspaceArgs == {None, Workspace}
PageSizes == {50}

CallGetRepositories ==
    /\ pc = "idle"
    /\ \E user_response \in AutoUserResponses, workspace \in WorkspaceArgs,
          page_size \in PageSizes :
         \E chain \in IF Proceeds(user_response) THEN PageChains ELSE {<<>>} :
           ReturnsAuth([tool |-> "get_repositories", user_response |-> user_response,
                        chain |-> chain, workspace |-> workspace,
                        page_size |-> page_size],
                       get_repositories(auth_headers, BITBUCKET_EMAIL, user_response,
                                        chain, workspace, page_size))
    /\ UNCHANGED <<BITBUCKET_EMAIL, writes>>

CallGetSpecificFileContent ==
    /\ pc = "idle"
    /\ \E user_response \in AutoUserResponses :
         \E response \in IF Proceeds(user_response) THEN FileResponses ELSE {NoResponse} :
           ReturnsAuth([tool |-> "get_specific_file_content",
                        user_response |-> user_response, response |-> response],
                       get_specific_file_content(auth_headers, BITBUCKET_EMAIL,
                           user_response, response, Workspace, RepoSlug, PathAPy, Branch))
    /\ UNCHANGED <<BITBUCKET_EMAIL, writes>>

NoRemote == [layout |-> [dir \in DirPaths |-> <<>>], bad |-> {}, mode |-> "status"]

CallGetRepositoryFilesList ==
    /\ pc = "idle"
    /\ \E user_response \in AutoUserResponses, path \in StartPaths :
         \E remote \in IF Proceeds(user_response) THEN Remotes ELSE {NoRemote} :
           ReturnsAuth([tool |-> "get_repository_files_list",
                        user_response |-> user_response, remote |-> remote,
                        path |-> path],
                       get_repository_files_list(auth_headers, BITBUCKET_EMAIL,
                           user_response, remote, Workspace, RepoSlug, Branch, path))
    /\ UNCHANGED <<BITBUCKET_EMAIL, writes>>

Filename == Str("codebase.json")

\* save_codebase_to_file returns r, leaving the files r.writes behind
ReturnsSave(remote, path, write, r) ==
    /\ Returns([tool |-> "save_codebase_to_file", remote |-> remote, path |-> path,
                user_response |-> NoResponse,
                write |-> IF r.opened THEN write ELSE NoResponse],
               r)
    /\ writes' = r.writes

CallSaveCodebaseToFile ==
    /\ pc = "idle"
    /\ \E remote \in Remotes, path \in StartPaths, timestamp \in Timestamps,
          write \in WriteOutcomes :
           ReturnsSave(remote, path, write,
                       save_codebase_to_file(auth_headers, remote, Workspace, RepoSlug,
                                             Filename, Branch, path, timestamp, write))
    /\ UNCHANGED <<auth_headers, BITBUCKET_EMAIL>>

\* the protocol layer hands the result to the caller and waits for the next call
Deliver ==
    /\ pc = "done"
    /\ pc' = "idle"
    /\ call' = NoCall
    /\ result' = None
    /\ requests' = <<>>
    /\ writes' = <<>>
    /\ UNCHANGED <<auth_headers, BITBUCKET_EMAIL>>

NextFetch == CallAuthenticateUser \/ CallGetRepositoryCodebase \/ Deliver

\* authentication and the codebase fetch alone
SpecFetch == Init /\ [][NextFetch]_vars

NextRepositories == CallAuthenticateUser \/ CallGetRepositories \/ Deliver

\* authentication and the repository listing alone
SpecRepositories == Init /\ [][NextRepositories]_vars

Next ==
    \/ CallAuthenticateUser
    \/ CallGetWorkspaces
    \/ CallGetRepositories
    \/ CallGetRepositoryCodebase
    \/ CallGetSpecificFileContent
    \/ CallGetRepositoryFilesList
    \/ CallSaveCodebaseToFile
    \/ Deliver

Spec == Init /\ [][Next]_vars

-----------------------------------------------------------------------------
(* What the claims speak of *)

\* the index of the last c in s, 0 if there is none
LastIndexOf(s, c) ==
    LET hits == {i \in 1..Len(s) : s[i] = c}
    IN  IF hits = {} THEN 0 ELSE CHOOSE i \in hits : \A j \in hits : j <= i

\* the directory a path lies in
ParentOf(p) ==
    IF LastIndexOf(p, "/") = 0 THEN RootPath ELSE SubSeq(p, 1, LastIndexOf(p, "/") - 1)

\* the extension of a path: its last component from its last dot on
Extension(p) ==
    LET name == SubSeq(p, LastIndexOf(p, "/") + 1, Len(p))
    IN  IF LastIndexOf(name, ".") = 0 THEN <<>>
        ELSE SubSeq(name, LastIndexOf(name, "."), Len(name))

\* the allow-list test as the specification states it: case-insensitive
ExtensionAllowed(p) == Extension(Lower(p)) \in CodebaseExtensions

\* p is d or lies below d
IsBelowOrAt(d, p) ==
    \/ p = d
    \/ /\ Len(p) > Len(d)
       /\ SubSeq(p, 1, Len(d)) = d
       /\ p[Len(d) + 1] = "/"

\* a get_repository_codebase call by an authenticated caller has returned
FetchReturned ==
    /\ pc = "done"
    /\ call.tool = "get_repository_codebase"
    /\ auth_headers # None

\* what the remote of the call answers for path p
Answer(p) == SrcGet(call.remote, p)

NonSuccessStatus(p) == ~Answer(p).raised /\ Answer(p).value.status_code # 200

RequestFails(p) == Answer(p).raised \/ Answer(p).value.status_code # 200

ListedOk(p) ==
    /\ ~Answer(p).raised
    /\ Answer(p).value.status_code = 200
    /\ ~Answer(p).value.json.raised

Listing(p) == Answer(p).value.json.value.values

RECURSIVE InWalk(_)
\* directory p is listed successfully, and so is every directory from the start
\* path down to it
InWalk(p) ==
    /\ ListedOk(p)
    /\ \/ p = call.path
       \/ /\ p # RootPath
          /\ InWalk(ParentOf(p))
          /\ \E i \in 1..Len(Listing(ParentOf(p))) :
                Listing(ParentOf(p))[i] = DirEntry(p)

\* directory p is asked for: it is the start path or listed by a directory of the walk
Reached(p) ==
    \/ p = call.path
    \/ /\ p # RootPath
       /\ InWalk(ParentOf(p))
       /\ \E i \in 1..Len(Listing(ParentOf(p))) : Listing(ParentOf(p))[i] = DirEntry(p)

RECURSIVE NodeSeq(_)
RECURSIVE NodeSeqOfAll(_, _)
\* the nodes of a tree, in pre-order
NodeSeq(n) ==
    IF n.type = "directory" THEN <<n>> \o NodeSeqOfAll(n.children, 1) ELSE <<n>>
NodeSeqOfAll(children, i) ==
    IF i > Len(children) THEN <<>>
    ELSE NodeSeq(children[i]) \o NodeSeqOfAll(children, i + 1)

TreeNodes == NodeSeq(result.structure)

\* the places of the tree that hold a Directory node for path p
DirectoryNodesAt(p) ==
    {k \in 1..Len(TreeNodes) : TreeNodes[k].type = "directory" /\ TreeNodes[k].path = p}

\* the number of requests the call issued for path p
RequestCount(p) == Cardinality({k \in 1..Len(requests) : requests[k].path = p})

\* the tree holds a Directory node for parent with a child of the given type and path
HasChild(parent, type, p) ==
    \E k \in DirectoryNodesAt(parent) :
       \E c \in 1..Len(TreeNodes[k].children) :
          /\ TreeNodes[k].children[c].type = type
          /\ TreeNodes[k].children[c].path = p

\* the File node the tree holds for entry e of directory parent has content c
FileChildHasContent(parent, e, c) ==
    \E k \in DirectoryNodesAt(parent) :
       \E i \in 1..Len(TreeNodes[k].children) :
          TreeNodes[k].children[i] =
              [type |-> "file", path |-> e.path, size |-> e.size, content |-> c]

\* the file entries of the directories of the walk, each with its directory
WalkedFiles ==
    UNION {{[dir |-> d, entry |-> Listing(d)[i]] : i \in
               {j \in 1..Len(Listing(d)) : Listing(d)[j].type = "commit_file"}}
           : d \in {x \in DirPaths : InWalk(x)}}

\* the directory entries of the directories of the walk, each with its directory and place
WalkedDirEntries ==
    UNION {{[dir |-> d, at |-> i, entry |-> Listing(d)[i]] : i \in
               {j \in 1..Len(Listing(d)) : Listing(d)[j].type = "commit_directory"}}
           : d \in {x \in DirPaths : InWalk(x)}}

-----------------------------------------------------------------------------
(* C1 *)

\* C1: when the listing request for the start path returns a non-success status,
\* get_repository_codebase returns success = false and no 'structure' field.
C1_RootFailureNoTree ==
    (FetchReturned /\ NonSuccessStatus(call.path))
        => (result.success = FALSE /\ "structure" \notin DOMAIN result)

C1_Witness ==
    /\ FetchReturned
    /\ call.path = RootPath
    /\ NonSuccessStatus(RootPath)
    /\ Len(call.remote.layout[RootPath]) >= 2
    /\ result.success = FALSE

-----------------------------------------------------------------------------
(* C2 *)

\* every entry of directory parent other than the i-th that is a file, or a
\* directory whose own listing succeeds, is a child of parent's node
SiblingsKept(parent, i) ==
    \A j \in 1..Len(Listing(parent)) :
       LET s == Listing(parent)[j]
       IN  j # i =>
             /\ s.type = "commit_file" => HasChild(parent, "file", s.path)
             /\ (s.type = "commit_directory" /\ ListedOk(s.path))
                    => HasChild(parent, "directory", s.path)

\* C2: when the listing of a directory below the start path returns a non-success
\* status while the listings above it succeed, the call returns success = true, the
\* tree holds no node for that directory or anything below it, and the other
\* entries of its parent are still children of the parent.
C2_NestedFailureOmitted ==
    FetchReturned =>
        \A x \in WalkedDirEntries :
           NonSuccessStatus(x.entry.path) =>
              /\ result.success = TRUE
              /\ \A k \in 1..Len(TreeNodes) : ~IsBelowOrAt(x.entry.path, TreeNodes[k].path)
              /\ SiblingsKept(x.dir, x.at)

C2_Witness ==
    /\ FetchReturned
    /\ call.path = RootPath
    /\ InWalk(PathD)
    /\ Len(Listing(RootPath)) = 2
    /\ Listing(PathD) = <<DirEntry(PathDE), FileEntry(PathDCPng, 30)>>
    /\ NonSuccessStatus(PathDE)
    /\ result.success = TRUE
    /\ HasChild(PathD, "file", PathDCPng)

-----------------------------------------------------------------------------
(* C3 *)

\* C3: for every file entry whose extension, compared case-insensitively, is in
\* the allow-list, a content request is issued for its path and the response body
\* is the File node's content.
C3_CaseInsensitiveContent ==
    FetchReturned =>
        \A f \in WalkedFiles :
           ExtensionAllowed(f.entry.path) =>
              /\ RequestCount(f.entry.path) = 1
              /\ ~RequestFails(f.entry.path) =>
                    FileChildHasContent(f.dir, f.entry, Answer(f.entry.path).value.text)

-----------------------------------------------------------------------------
(* C4 *)

\* C4: for every file entry whose extension is not in the allow-list, the File
\* node's content is null and no content request is issued for it, whatever the
\* remote would have answered.
C4_OtherExtensionsNoContent ==
    FetchReturned =>
        \A f \in WalkedFiles :
           ~ExtensionAllowed(f.entry.path) =>
              /\ FileChildHasContent(f.dir, f.entry, None)
              /\ RequestCount(f.entry.path) = 0

C4_Witness ==
    /\ FetchReturned
    /\ [dir |-> PathD, entry |-> FileEntry(PathDCPng, 30)] \in WalkedFiles
    /\ ~RequestFails(PathDCPng)
    /\ FileChildHasContent(PathD, FileEntry(PathDCPng, 30), None)

-----------------------------------------------------------------------------
(* C5 *)

\* the error string get_file_contents makes of a failed request for path p
IsErrorString(c, p) ==
    /\ "kind" \in DOMAIN c
    /\ c.kind \in {"Error: Could not fetch file", "Error: Exception while fetching"}
    /\ c.path = p

\* every entry of directory d that is a file, or a directory listed successfully,
\* has its node among the children of d's node, in listing order
EntriesKept(d) ==
    LET kept == SelectSeq(Listing(d),
                    LAMBDA e : e.type = "commit_file" \/ ListedOk(e.path))
    IN  \E k \in DirectoryNodesAt(d) :
           /\ Len(TreeNodes[k].children) = Len(kept)
           /\ \A i \in 1..Len(kept) : TreeNodes[k].children[i].path = kept[i].path

\* C5: when the content request for a file returns a non-success status or raises,
\* the File node is still created with an error string as content, the walk goes on
\* with the other entries, and the call returns success = true with the other
\* nodes as they would be.
C5_ContentFailureInline ==
    FetchReturned =>
        \A f \in WalkedFiles :
           (RequestCount(f.entry.path) > 0 /\ RequestFails(f.entry.path)) =>
              /\ result.success = TRUE
              /\ \E k \in DirectoryNodesAt(f.dir) :
                    \E i \in 1..Len(TreeNodes[k].children) :
                       /\ TreeNodes[k].children[i].type = "file"
                       /\ TreeNodes[k].children[i].path = f.entry.path
                       /\ TreeNodes[k].children[i].size = f.entry.size
                       /\ IsErrorString(TreeNodes[k].children[i].content, f.entry.path)
              /\ \A d \in DirPaths : InWalk(d) => EntriesKept(d)
              /\ \A g \in WalkedFiles :
                    (RequestCount(g.entry.path) > 0 /\ ~RequestFails(g.entry.path)) =>
                       FileChildHasContent(g.dir, g.entry, Answer(g.entry.path).value.text)

C5_Witness ==
    /\ FetchReturned
    /\ call.path = RootPath
    /\ InWalk(RootPath)
    /\ Listing(RootPath) = <<FileEntry(PathAPy, 10), DirEntry(PathD)>>
    /\ RequestFails(PathAPy)
    /\ InWalk(PathD)
    /\ Len(Listing(PathD)) = 2
    /\ result.success = TRUE
    /\ HasChild(RootPath, "directory", PathD)

-----------------------------------------------------------------------------
(* C6 *)

\* a get_repositories call that got past authentication has returned
RepositoriesReturned ==
    /\ pc = "done"
    /\ call.tool = "get_repositories"
    /\ Len(call.chain) > 0

\* every response of the chain is a successful page
AllPagesOk(chain) ==
    \A i \in 1..Len(chain) :
       /\ ~chain[i].raised
       /\ chain[i].value.status_code = 200
       /\ ~chain[i].value.json.raised
       /\ "values" \in DOMAIN chain[i].value.json.value

RECURSIVE ConcatPages(_, _)
\* the values of pages i.. of the chain, one after the other
ConcatPages(chain, i) ==
    IF i > Len(chain) THEN <<>>
    ELSE chain[i].value.json.value.values \o ConcatPages(chain, i + 1)

RECURSIVE SumPageSizes(_, _)
SumPageSizes(chain, i) ==
    IF i > Len(chain) THEN 0
    ELSE Len(chain[i].value.json.value.values) + SumPageSizes(chain, i + 1)

\* the requests of the call to the repositories endpoint
PageRequests == SelectSeq(requests, LAMBDA r : "url" \in DOMAIN r)

\* C6: for a chain of successful pages linked by next, get_repositories returns
\* success with the concatenation of the pages' values in page order, count the
\* sum of the page sizes, having requested each page exactly once, in order.
C6_PaginationConcatenates ==
    (RepositoriesReturned /\ AllPagesOk(call.chain)) =>
        /\ result.success = TRUE
        /\ result.repositories = ConcatPages(call.chain, 1)
        /\ result.count = SumPageSizes(call.chain, 1)
        /\ Len(PageRequests) = Len(call.chain)
        /\ PageRequests[1].url = RepositoriesUrl(call.workspace)
        /\ \A i \in 2..Len(call.chain) : PageRequests[i].url = PageUrl(i)

C6_Witness ==
    /\ RepositoriesReturned
    /\ AllPagesOk(call.chain)
    /\ Len(call.chain) = 3
    /\ \A i \in 1..3 : Len(call.chain[i].value.json.value.values) = 2
    /\ result.count = 6
    /\ result.repositories =
          <<[page |-> 1, slug |-> 1], [page |-> 1, slug |-> 2], [page |-> 2, slug |-> 1],
            [page |-> 2, slug |-> 2], [page |-> 3, slug |-> 1], [page |-> 3, slug |-> 2]>>

-----------------------------------------------------------------------------
(* C7 *)

\* C7: whatever the remote answers, every tool returns an envelope with a boolean
\* 'success'; nothing is raised to the caller, and success is false whenever the
\* envelope carries 'error'.
C7_AlwaysEnvelope ==
    pc = "done" =>
        /\ "raised" \notin DOMAIN result
        /\ "success" \in DOMAIN result
        /\ result.success \in BOOLEAN
        /\ "error" \in DOMAIN result => result.success = FALSE

C7_Witness ==
    /\ pc = "done"
    /\ call.tool = "save_codebase_to_file"
    /\ writes # <<>>
    /\ call.write.fails = "dump"
    /\ writes[1].written = "prefix"
    /\ Len(requests) >= 2
    /\ result.success = FALSE
    /\ result.error.exc = "OSError"

-----------------------------------------------------------------------------
(* C8 *)

\* the envelope carries the status and body of the remote's answer for path p
CarriesRemoteError(p) ==
    /\ "error" \in DOMAIN result
    /\ "status" \in DOMAIN result.error
    /\ result.error.status = Answer(p).value.status_code
    /\ "details" \in DOMAIN result
    /\ result.details = Answer(p).value.text

\* C8 as stated: when a listing request returns a non-success status, the fetch
\* fails at once, without asking again, and the failure carries the remote status
\* code and response body.
C8_FailureCarriesStatus ==
    FetchReturned =>
        \A p \in DirPaths :
           (Reached(p) /\ NonSuccessStatus(p)) =>
              /\ result.success = FALSE
              /\ RequestCount(p) = 1
              /\ CarriesRemoteError(p)

\* C8 amended: when the listing request for the start path returns a non-success
\* status, the fetch fails after that one request, and the failure is the fixed
\* message alone, without the remote status code or body.
C8_RootFailureGeneric ==
    (FetchReturned /\ NonSuccessStatus(call.path)) =>
        /\ result = [success |-> FALSE,
                     error |-> [msg |-> "Failed to get codebase structure"]]
        /\ Len(requests) = 1
        /\ requests[1].path = call.path
        /\ ~CarriesRemoteError(call.path)

C8_Witness ==
    /\ FetchReturned
    /\ call.path = PathD
    /\ call.remote.layout[RootPath] = <<DirEntry(PathD), FileEntry(PathAPy, 10)>>
    /\ NonSuccessStatus(PathD)
    /\ Answer(PathD).value.status_code = 404
    /\ result.success = FALSE
    /\ requests = <<SrcRequest(Workspace, RepoSlug, Branch, PathD, auth_headers)>>

-----------------------------------------------------------------------------
(* C9 *)

\* every listing request of the call succeeds
AllListingsOk == \A p \in DirPaths : Reached(p) => ListedOk(p)

\* the children of node n are the entries of listing l, one for one and in order
ChildrenMirror(n, l) ==
    /\ Len(n.children) = Len(l)
    /\ \A i \in 1..Len(l) :
          /\ n.children[i].path = l[i].path
          /\ n.children[i].type =
                 (IF l[i].type = "commit_file" THEN "file" ELSE "directory")

\* how many elements of s are of type t
CountType(s, t) == Cardinality({i \in 1..Len(s) : s[i].type = t})

\* C9: when every listing request succeeds, each Directory node's children are the
\* entries of its listing, one for one and in listing order; every directory is
\* listed exactly once and is in the tree exactly once; a directory without
\* subdirectories has as many File children as its listing has file entries.
C9_TreeMirrorsListings ==
    (FetchReturned /\ AllListingsOk) =>
        /\ result.success = TRUE
        /\ result.structure.path = call.path
        /\ \A k \in 1..Len(TreeNodes) :
              TreeNodes[k].type = "directory" => Reached(TreeNodes[k].path)
        /\ \A p \in DirPaths :
              Reached(p) =>
                 /\ RequestCount(p) = 1
                 /\ Cardinality(DirectoryNodesAt(p)) = 1
                 /\ \A k \in DirectoryNodesAt(p) :
                       /\ ChildrenMirror(TreeNodes[k], Listing(p))
                       /\ CountType(Listing(p), "commit_directory") = 0
                             => CountType(TreeNodes[k].children, "file")
                                  = CountType(Listing(p), "commit_file")

C9_Witness ==
    /\ FetchReturned
    /\ AllListingsOk
    /\ call.path = RootPath
    /\ Listing(RootPath) = <<DirEntry(PathD), FileEntry(PathAPy, 10)>>
    /\ Listing(PathD) = <<FileEntry(PathDCPng, 30), DirEntry(PathDE)>>
    /\ Listing(PathDE) = <<FileEntry(PathDEGH, 40)>>
    /\ Len(requests) = 5
    /\ Len(TreeNodes) = 6

-----------------------------------------------------------------------------
(* C10 *)

\* the step is the return of an authentication whose remote check answered 200:
\* authenticate_user itself, or a tool that calls it for want of credentials
AuthenticatedWith200 ==
    /\ call'.tool \in {"authenticate_user", "get_workspaces", "get_repositories",
                       "get_specific_file_content", "get_repository_files_list"}
    /\ call'.user_response # NoResponse
    /\ ~call'.user_response.raised
    /\ call'.user_response.value.status_code = 200

\* C10: the stored credentials change only in an authenticate_user call whose
\* remote check returned 200; an authentication that fails leaves them as they
\* were; and get_repository_codebase without credentials fails without a request
\* and without authenticating.
C10_CredentialsFrame ==
    [][ /\ auth_headers' # auth_headers => AuthenticatedWith200
        /\ (pc = "idle" /\ call'.tool = "authenticate_user" /\ result'.success = FALSE)
              => auth_headers' = auth_headers
        /\ (pc = "idle" /\ call'.tool = "get_repository_codebase" /\ auth_headers = None)
              => /\ result'.success = FALSE
                 /\ requests' = <<>>
                 /\ auth_headers' = None ]_vars
====
